---------------------------- MODULE Spec2Model ----------------------------
(***************************************************************************)
(* Model of FinancasBob_main.py: the import pipeline of IntegradorSheets   *)
(* (hashing, deduplication against the "Historico" sheet, classification,  *)
(* insertion into the three bounded sections of the month sheet, ledger    *)
(* append), at the granularity of one action per call to the sheet store.  *)
(***************************************************************************)
EXTENDS Integers, Sequences, FiniteSets, TLC

(***************************************************************************)
(* Bounds of the model.                                                    *)
(***************************************************************************)
\* Rows of the sections Entradas and Gastos Fixos in the model (the source
\* gives them 10 rows each); Gastos Variaveis, the larger section of the
\* source (27 rows), gets one row more.
MaxLinhas == 1
\* Longest batch (DataFrame) handed to importar_transacoes.
MaxLote == 2
\* Number of successive runs of importar_transacoes.
MaxExec == 2
\* Longest description handed to categorizar on its own, in words.
MaxPalavras == 2
\* Largest amount handed to categorizar on its own, in absolute value.
MaxValor == 1

(***************************************************************************)
(* Config (lines 60-97). The first rows and the columns are those of the   *)
(* source; the last rows (19, 51 and 26 in the source) follow from the     *)
(* bound MaxLinhas.                                                        *)
(***************************************************************************)
ENTRADAS_INICIO_LINHA == 10
ENTRADAS_FIM_LINHA == ENTRADAS_INICIO_LINHA + MaxLinhas - 1
ENTRADAS_COL_DESCRICAO == "B"

VARIAVEIS_INICIO_LINHA == 25
VARIAVEIS_FIM_LINHA == VARIAVEIS_INICIO_LINHA + MaxLinhas
VARIAVEIS_COL_DESCRICAO == "B"

FIXOS_INICIO_LINHA == 17
FIXOS_FIM_LINHA == FIXOS_INICIO_LINHA + MaxLinhas - 1
FIXOS_COL_DESCRICAO == "H"

(***************************************************************************)
(* Python string operations used by the source, on TLA+ strings.           *)
(***************************************************************************)
Maiusculas == "ABCDEFGHIJKLMNOPQRSTUVWXYZ"
Minusculas == "abcdefghijklmnopqrstuvwxyz"

\* c.lower() for one character
LowerChar(c) ==
    IF \E i \in 1..Len(Maiusculas) : SubSeq(Maiusculas, i, i) = c
    THEN LET i == CHOOSE j \in 1..Len(Maiusculas) : SubSeq(Maiusculas, j, j) = c
         IN  SubSeq(Minusculas, i, i)
    ELSE c

RECURSIVE Lower(_)
\* s.lower()
Lower(s) == IF Len(s) = 0 THEN "" ELSE LowerChar(Head(s)) \o Lower(Tail(s))

RECURSIVE Remover(_, _)
\* s.replace(c, '') for a one-character c
Remover(s, c) ==
    IF Len(s) = 0 THEN ""
    ELSE (IF Head(s) = c THEN "" ELSE Head(s)) \o Remover(Tail(s), c)

\* s.replace(' ', '').replace('.', '').replace('-', '')
Limpar(s) == Remover(Remover(Remover(s, " "), "."), "-")

\* p in s  (substring test)
Contem(p, s) ==
    \E i \in 0..(Len(s) - Len(p)) : SubSeq(s, i + 1, i + Len(p)) = p

\* s[:n]
Prefixo(s, n) == SubSeq(s, 1, IF Len(s) < n THEN Len(s) ELSE n)

Digitos == "0123456789"

RECURSIVE NatTexto(_)
\* str(n) for a natural number n
NatTexto(n) ==
    IF n < 10 THEN SubSeq(Digitos, n + 1, n + 1)
    ELSE NatTexto(n \div 10) \o SubSeq(Digitos, (n % 10) + 1, (n % 10) + 1)

\* str(v) for the float v of the column Valor. The model holds an amount as
\* its number of tenths (-235 is -23.5), so every amount has one decimal and
\* Python prints it as <sign><integer part>.<tenth>.
ValorTexto(v) ==
    LET a == IF v < 0 THEN 0 - v ELSE v
    IN  (IF v < 0 THEN "-" ELSE "") \o NatTexto(a \div 10) \o "." \o NatTexto(a % 10)

(***************************************************************************)
(* CategorizadorIA (lines 102-152).                                        *)
(***************************************************************************)
\* The dict MAPEAMENTO in its insertion order, the order .items() iterates.
MAPEAMENTO == <<
    [categoria |-> "Transporte",
     palavras |-> <<"uber", "99", "taxi", "gasolina", "posto", "ipva",
                    "estacionamento", "onibus", "metro">>],
    [categoria |-> "Delivery",
     palavras |-> <<"ifood", "rappi", "uber eats", "delivery">>],
    [categoria |-> "Lazer",
     palavras |-> <<"cinema", "netflix", "spotify", "prime", "disney",
                    "restaurante", "bar", "show">>],
    [categoria |-> "Saude",
     palavras |-> <<"medico", "hospital", "laboratorio", "consulta", "exame",
                    "clinica">>],
    [categoria |-> "Farmacia",
     palavras |-> <<"farmacia", "droga", "drogaria", "remedio">>],
    [categoria |-> "Casa",
     palavras |-> <<"aluguel", "condominio", "luz", "agua", "internet", "gas",
                    "energia">>],
    [categoria |-> "Supermercado",
     palavras |-> <<"supermercado", "mercado", "atacadao", "pao de acucar",
                    "assai", "padaria">>],
    [categoria |-> "Roupa",
     palavras |-> <<"roupa", "sapato", "loja", "zara", "renner", "nike",
                    "adidas">>],
    [categoria |-> "Faculdade",
     palavras |-> <<"faculdade", "universidade", "curso", "mensalidade",
                    "escola">>],
    [categoria |-> "Beleza",
     palavras |-> <<"salao", "cabelo", "manicure", "barbeiro", "estetica">>],
    [categoria |-> "Assinaturas",
     palavras |-> <<"assinatura", "recorrente", "tim", "vivo", "claro", "oi">>],
    [categoria |-> "Presentes",
     palavras |-> <<"presente", "gift">>] >>

GASTOS_FIXOS_KEYWORDS == <<
    "aluguel", "condominio", "luz", "agua", "internet", "gas", "energia",
    "tim", "vivo", "claro", "oi", "netflix", "spotify", "prime", "disney",
    "faculdade", "universidade", "mensalidade", "plano", "assinatura",
    "academia" >>

\* eh_fixo left at its initial value False.
EhFixoNunca(desc) == FALSE

\* The loop of lines 134-139: eh_fixo
EhFixo(desc) ==
    \E k \in 1..Len(GASTOS_FIXOS_KEYWORDS) :
        Contem(Limpar(GASTOS_FIXOS_KEYWORDS[k]), Limpar(desc))

\* any(palavra in desc for palavra in palavras)
AlgumaPalavra(palavras, desc) ==
    \E k \in 1..Len(palavras) : Contem(palavras[k], desc)

\* The test of line 130 without its "valor > 0".
EhEntradaSemSinal(desc, valor) ==
    Contem("recebida", desc) \/ Contem("salario", desc)

\* if valor > 0 or 'recebida' in desc or 'salario' in desc  (line 130)
EhEntrada(desc, valor) ==
    valor > 0 \/ Contem("recebida", desc) \/ Contem("salario", desc)

\* The loop of lines 141-145 returning at the last match, not at the first.
UltimaCategoria(desc) ==
    LET achadas == {k \in 1..Len(MAPEAMENTO) :
                        AlgumaPalavra(MAPEAMENTO[k].palavras, desc)}
    IN  IF achadas # {}
        THEN LET k == CHOOSE j \in achadas : \A m \in achadas : j >= m
             IN  MAPEAMENTO[k].categoria
        ELSE "Necessidade"

\* The loop of lines 141-143 and the return of line 145: the category.
PrimeiraCategoria(desc) ==
    LET achadas == {k \in 1..Len(MAPEAMENTO) :
                        AlgumaPalavra(MAPEAMENTO[k].palavras, desc)}
    IN  IF achadas # {}
        THEN LET k == CHOOSE j \in achadas : \A m \in achadas : j <= m
             IN  MAPEAMENTO[k].categoria
        ELSE "Necessidade"

\* CategorizadorIA.categorizar(descricao, valor) -> (categoria, tipo, eh_fixo)
categorizar(descricao, valor) ==
    LET desc == Lower(descricao)
    IN  IF EhEntrada(desc, valor)
        THEN <<"Entrada", "Receita", FALSE>>
        ELSE LET eh_fixo == EhFixo(desc)
             IN  <<PrimeiraCategoria(desc), "Despesa", eh_fixo>>

\* CategorizadorIA.identificar_forma_pagamento(descricao)
identificar_forma_pagamento(descricao) ==
    LET desc == Lower(descricao)
    IN  IF Contem("pix", desc) THEN "Pix"
        ELSE IF Contem("cartao", desc) \/ Contem("credito", desc) THEN "Cartao"
        ELSE "Pix"

\* IntegradorSheets._gerar_hash_transacao(row): the text that is digested.
\* MD5 is taken to be free of collisions, so the digest stands for its text.
gerar_hash_transacao(row) ==
    row.Data \o "|" \o row.Descricao \o "|" \o ValorTexto(row.Valor)

(***************************************************************************)
(* The input: transaction records (Data, Descricao, Valor) and batches.    *)
(***************************************************************************)
ListaRegistros == <<
    [Data |-> "05/01/2024", Descricao |-> "Salario Empresa", Valor |-> 30000],
    [Data |-> "06/01/2024", Descricao |-> "Aluguel", Valor |-> -5000],
    [Data |-> "05/01/2024", Descricao |-> "UBER *TRIP", Valor |-> -235],
    [Data |-> "07/01/2024", Descricao |-> "Padaria Sol", Valor |-> -120] >>

Registros == {ListaRegistros[i] : i \in 1..Len(ListaRegistros)}

\* The DataFrames handed to importar_transacoes: main() calls it only with a
\* non-empty frame (line 321); rows may repeat.
Lotes == UNION {[1..n -> Registros] : n \in 1..MaxLote}

\* The operators of the source applied to the records of the model, held as
\* tables: what the runs compute for a row, computed once per record.
HashDe == [r \in Registros |-> gerar_hash_transacao(r)]
ClasseDe == [r \in Registros |-> categorizar(r.Descricao, r.Valor)]
FormaDe == [r \in Registros |-> identificar_forma_pagamento(r.Descricao)]
TextoDe == [r \in Registros |-> ValorTexto(r.Valor)]

\* The record (Data, Descricao, Valor) of a row of the DataFrame.
Registro(row) ==
    [Data |-> row.Data, Descricao |-> row.Descricao, Valor |-> row.Valor]

\* The arguments of a call of categorizar on its own. A description is up
\* to MaxPalavras of these words with a blank between them: words with a
\* keyword of a category (of the sixth, the third, the first and the eighth
\* of the table), of the fixed expenses (with and without a category, and
\* one cut by a hyphen), of the incomes, and a word with none. An amount is
\* negative, zero or positive.
Palavras ==
    {"Aluguel", "Netflix", "UBER", "Loja", "Plano", "Alu-guel", "Salario",
     "recebida", "XYZ"}

RECURSIVE Juntar(_)
Juntar(ps) ==
    IF Len(ps) = 1 THEN ps[1] ELSE ps[1] \o " " \o Juntar(Tail(ps))

Descricoes ==
    {Juntar(ps) : ps \in UNION {[1..n -> Palavras] : n \in 1..MaxPalavras}}

Valores == (0 - MaxValor)..MaxValor

Procs == {"p1", "p2"}

\* The value None of Python; rows of the sheet are numbered from 1.
None == 0

(***************************************************************************)
(* The spreadsheet.                                                        *)
(***************************************************************************)
\* The three sections in the order _processar_insercoes serves them
\* (lines 267-269 with 272-274).
Secoes == <<
    [nome |-> "Entradas", col |-> ENTRADAS_COL_DESCRICAO,
     inicio |-> ENTRADAS_INICIO_LINHA, fim |-> ENTRADAS_FIM_LINHA],
    [nome |-> "Fixos", col |-> FIXOS_COL_DESCRICAO,
     inicio |-> FIXOS_INICIO_LINHA, fim |-> FIXOS_FIM_LINHA],
    [nome |-> "Variaveis", col |-> VARIAVEIS_COL_DESCRICAO,
     inicio |-> VARIAVEIS_INICIO_LINHA, fim |-> VARIAVEIS_FIM_LINHA] >>

NumSecoes == Len(Secoes)

\* The cells of the month sheet the program reads and writes: the
\* description column of each section. "" is an empty cell.
Celulas ==
    UNION {{<<Secoes[s].col, r>> : r \in Secoes[s].inicio..Secoes[s].fim} :
              s \in 1..NumSecoes}

CABECALHO == <<"Hash", "Data", "Descricao", "Valor", "Data_Importacao">>
LinhaVazia == <<"", "", "", "", "">>

Maior(S) == CHOOSE m \in S : \A n \in S : n <= m
Menor(S) == CHOOSE m \in S : \A n \in S : m <= n

\* Worksheet.get('<coluna><inicio>:<coluna><fim>') of the sheets API: one
\* entry per row up to the last non-empty row of the range, an empty row as
\* an empty list, trailing empty rows left out.
Get(aba, coluna, inicio, fim) ==
    LET ocupadas == {r \in inicio..fim : aba[<<coluna, r>>] # ""}
    IN  IF ocupadas = {} THEN <<>>
        ELSE [i \in 1..(Maior(ocupadas) - inicio + 1) |->
                 IF aba[<<coluna, inicio + i - 1>>] = "" THEN <<>>
                 ELSE <<aba[<<coluna, inicio + i - 1>>]>>]

\* The scan answering the row after inicio when nothing was read.
PrimeiraVaziaDeslocada(valores, inicio) ==
    IF valores = <<>> THEN inicio + 1
    ELSE LET vazias == {i \in 1..Len(valores) :
                            valores[i] = <<>> \/ valores[i][1] = ""}
         IN  IF vazias = {} THEN None ELSE inicio + Menor(vazias) - 1

\* The scan of lines 226-234 over the values read.
PrimeiraVazia(valores, inicio) ==
    IF valores = <<>> THEN inicio
    ELSE LET vazias == {i \in 1..Len(valores) :
                            valores[i] = <<>> \/ valores[i][1] = ""}
         IN  IF vazias = {} THEN None ELSE inicio + Menor(vazias) - 1

\* IntegradorSheets._encontrar_proxima_linha_vazia(coluna, inicio, fim)
encontrar_proxima_linha_vazia(aba, coluna, inicio, fim) ==
    PrimeiraVazia(Get(aba, coluna, inicio, fim), inicio)

\* gspread_dataframe.get_as_dataframe(aba) followed by lines 212-213: the
\* first row of the sheet names the columns; without a column "Hash" the
\* result is set(); empty cells are NaN and dropna() leaves them out.
HashesDoHistorico(linhas) ==
    IF Len(linhas) = 0 THEN {}
    ELSE LET cols == {k \in 1..Len(linhas[1]) : linhas[1][k] = "Hash"}
         IN  IF cols = {} THEN {}
             ELSE {linhas[i][Menor(cols)] : i \in 2..Len(linhas)} \ {""}

\* Worksheet.get_all_values(): the rows of the sheet; an empty sheet gives
\* one empty row ([[]]).
get_all_values(linhas) == IF Len(linhas) = 0 THEN <<<<>>>> ELSE linhas

\* The update with the range 'A1' whatever n is.
updateEmA1(linhas, dados, n) ==
    LET ultimo == IF Len(linhas) > Len(dados) THEN Len(linhas) ELSE Len(dados)
    IN  [i \in 1..ultimo |-> IF i <= Len(dados) THEN dados[i] ELSE linhas[i]]

\* Worksheet.update(dados, 'A<n>'): the rows of dados are written from row n
\* on, over whatever these rows hold; rows skipped stay empty.
update(linhas, dados, n) ==
    LET ultimo == IF Len(linhas) > n - 1 + Len(dados) THEN Len(linhas)
                  ELSE n - 1 + Len(dados)
    IN  [i \in 1..ultimo |->
            IF i >= n /\ i < n + Len(dados) THEN dados[i - n + 1]
            ELSE IF i <= Len(linhas) THEN linhas[i]
            ELSE LinhaVazia]

(***************************************************************************)
(* Steps of importar_transacoes that touch no store.                       *)
(***************************************************************************)
\* line 238: df['Hash'] = df.apply(self._gerar_hash_transacao, axis=1)
ComHash(lote) ==
    [i \in 1..Len(lote) |->
        [Data |-> lote[i].Data, Descricao |-> lote[i].Descricao,
         Valor |-> lote[i].Valor, Hash |-> HashDe[lote[i]]]]

\* The batch as it came: no row is filtered out.
FiltrarNada(d, hashes) == d

RECURSIVE FiltrarInvertido(_, _)
\* The filter with its "~" left out: df[df['Hash'].isin(hashes_existentes)]
FiltrarInvertido(d, hashes) ==
    IF d = <<>> THEN <<>>
    ELSE (IF Head(d).Hash \in hashes THEN <<Head(d)>> ELSE <<>>)
         \o FiltrarInvertido(Tail(d), hashes)

RECURSIVE Filtrar(_, _)
\* line 241: df[~df['Hash'].isin(hashes_existentes)]
Filtrar(d, hashes) ==
    IF d = <<>> THEN <<>>
    ELSE (IF Head(d).Hash \in hashes THEN <<>> ELSE <<Head(d)>>)
         \o Filtrar(Tail(d), hashes)

\* lines 261-265: the columns Categoria, Tipo, EhFixo, Forma
Classificar(d) ==
    [i \in 1..Len(d) |->
        LET c == ClasseDe[Registro(d[i])]
        IN  [Data |-> d[i].Data, Descricao |-> d[i].Descricao,
             Valor |-> d[i].Valor, Hash |-> d[i].Hash,
             Categoria |-> c[1], Tipo |-> c[2], EhFixo |-> c[3],
             Forma |-> FormaDe[Registro(d[i])]]]

\* The row filters with the test of EhFixo missing from the third.
DaSecaoSobreposta(row, s) ==
    CASE s = 1 -> row.Tipo = "Receita"
      [] s = 2 -> row.Tipo = "Despesa" /\ row.EhFixo = TRUE
      [] s = 3 -> row.Tipo = "Despesa"

\* The row filters of lines 267-269, by section number.
DaSecao(row, s) ==
    CASE s = 1 -> row.Tipo = "Receita"
      [] s = 2 -> row.Tipo = "Despesa" /\ row.EhFixo = TRUE
      [] s = 3 -> row.Tipo = "Despesa" /\ row.EhFixo = FALSE

RECURSIVE Grupo(_, _)
\* df[<filter of section s>]
Grupo(d, s) ==
    IF d = <<>> THEN <<>>
    ELSE (IF DaSecao(Head(d), s) THEN <<Head(d)>> ELSE <<>>) \o Grupo(Tail(d), s)

\* line 293: the rows [Hash, Data, Descricao, Valor, Data_Importacao]
Dados(d, agora) ==
    [i \in 1..Len(d) |->
        <<d[i].Hash, d[i].Data, d[i].Descricao, TextoDe[Registro(d[i])], agora>>]

\* datetime.now().strftime(...): the clock is the number of the run.
Agora(n) == "t" \o NatTexto(n)

(***************************************************************************)
(* State.                                                                  *)
(***************************************************************************)
VARIABLES
    aba_mes,        \* the month sheet: [Celulas -> text], "" an empty cell
    historico,      \* the sheet "Historico": [existe, linhas]
    pc,             \* where each run of importar_transacoes stands
    df,             \* the batch of each run, with its column Hash
    df_novas,       \* the rows of df that passed the deduplication
    secao,          \* the section _processar_insercoes is serving
    linha,          \* the local linha of _inserir_generico
    pend,           \* the rows iterrows() has still to yield
    prox_linha,     \* the local prox_linha of _atualizar_historico
    execucoes,      \* runs started so far
    \* history variables, read by the properties only
    antes,          \* the store as it was when the run started
    escritas,       \* the cell writes of the run, in order
    alocada,        \* what the allocator returned, one entry per section
    falha,          \* the store call of the run that failed, "" if none
    total_escritas, \* per hash, the cell writes of all runs
    anterior,       \* the batch of the run before, and how that run ended
    passos,         \* the steps of the run so far, in order
    \* a call of CategorizadorIA.categorizar on its own
    chamada,        \* its arguments: [descricao, valor]
    resultado       \* what it returned, <<>> before it returns

vars == <<aba_mes, historico, pc, df, df_novas, secao, linha, pend, prox_linha,
          execucoes, antes, escritas, alocada, falha, total_escritas, anterior,
          passos, chamada, resultado>>

\* The state of the call of categorizar on its own: no run touches it.
classificador == <<chamada, resultado>>

\* The step of the run of p is on record, with the section it serves (0
\* outside _inserir_generico).
Registra(p, passo) ==
    passos' = [passos EXCEPT ![p] = Append(@, [passo |-> passo, secao |-> secao[p]])]

locais == <<df, df_novas, secao, linha, pend, prox_linha>>

HashesDosRegistros == {HashDe[r] : r \in Registros}

\* The exception leaves importar_transacoes (no handler on the path).
Propaga(p, qual) ==
    /\ pc' = [pc EXCEPT ![p] = "falhou"]
    /\ falha' = [falha EXCEPT ![p] = qual]

\* The test of line 279 with its comparison turned around.
TemEspacoInvertido(l, fim) == l # None /\ l >= fim

\* if linha and linha <= fim  (line 279)
TemEspaco(l, fim) == l # None /\ l <= fim

\* The loop without its "if linha > fim: break".
ContinuaSemLimite(l, fim, resto) == resto # <<>>

\* The loop goes on: a row is left and "if linha > fim: break" does not hit
\* (lines 280-281).
Continua(l, fim, resto) == resto # <<>> /\ ~(l > fim)

\* if df_novas.empty: return  (lines 243-245)
SemNovas(d) == d = <<>>

\* The row after the values read, with its "+ 1" left out.
ProxLinhaSemMais(valores) == Len(valores)

\* prox_linha = len(valores) + 1  (line 291)
ProxLinha(valores) == Len(valores) + 1

(***************************************************************************)
(* importar_transacoes, one action per call to the store.                  *)
(***************************************************************************)
\* lines 236-238: the run starts and hashes its batch.
Iniciar(p, lote) ==
    /\ pc[p] \in {"idle", "done", "falhou"}
    /\ execucoes < MaxExec
    /\ execucoes' = execucoes + 1
    /\ pc' = [pc EXCEPT ![p] = "consultar"]
    /\ df' = [df EXCEPT ![p] = ComHash(lote)]
    /\ df_novas' = [df_novas EXCEPT ![p] = <<>>]
    /\ secao' = [secao EXCEPT ![p] = 0]
    /\ linha' = [linha EXCEPT ![p] = None]
    /\ pend' = [pend EXCEPT ![p] = <<>>]
    /\ prox_linha' = [prox_linha EXCEPT ![p] = 0]
    /\ antes' = [antes EXCEPT ![p] = [aba |-> aba_mes, hist |-> historico]]
    /\ escritas' = [escritas EXCEPT ![p] = <<>>]
    /\ alocada' = [alocada EXCEPT ![p] = <<>>]
    /\ falha' = [falha EXCEPT ![p] = ""]
    /\ anterior' = [anterior EXCEPT ![p] = [df |-> df[p], pc |-> pc[p]]]
    /\ passos' = [passos EXCEPT ![p] = <<[passo |-> "hash", secao |-> 0]>>]
    /\ UNCHANGED <<aba_mes, historico, total_escritas, classificador>>

\* lines 208-216 with 240-245: _get_transacoes_existentes and the filter.
ConsultarHistorico(p) ==
    /\ pc[p] = "consultar"
    /\ \E ok \in BOOLEAN :
        IF ~ok
        THEN \* worksheet() or the read raises something else than
             \* WorksheetNotFound
             /\ Propaga(p, "leitura")
             /\ UNCHANGED df_novas
        ELSE IF ~historico.existe
        THEN \* except WorksheetNotFound: self._criar_aba_historico()
             /\ pc' = [pc EXCEPT ![p] = "criar_aba"]
             /\ UNCHANGED <<df_novas, falha>>
        ELSE LET novas == Filtrar(df[p], HashesDoHistorico(historico.linhas))
             IN  /\ df_novas' = [df_novas EXCEPT ![p] = novas]
                 /\ pc' = [pc EXCEPT ![p] =
                              IF SemNovas(novas) THEN "done" ELSE "categorizar"]
                 /\ UNCHANGED falha
    /\ Registra(p, "consultar")
    /\ UNCHANGED <<aba_mes, historico, df, secao, linha, pend, prox_linha,
                   execucoes, antes, escritas, alocada, total_escritas, anterior,
                   classificador>>

\* line 219: add_worksheet; it fails when the sheet exists by now.
CriarAba(p) ==
    /\ pc[p] = "criar_aba"
    /\ \E ok \in BOOLEAN :
        IF ok /\ ~historico.existe
        THEN /\ historico' = [existe |-> TRUE, linhas |-> <<>>]
             /\ pc' = [pc EXCEPT ![p] = "criar_cabecalho"]
             /\ UNCHANGED falha
        ELSE /\ Propaga(p, "criar")
             /\ UNCHANGED historico
    /\ Registra(p, "criar_aba")
    /\ UNCHANGED <<aba_mes, locais, execucoes, antes, escritas, alocada,
                   total_escritas, anterior, classificador>>

\* line 220 and the return set() of line 216.
CriarCabecalho(p) ==
    /\ pc[p] = "criar_cabecalho"
    /\ \E ok \in BOOLEAN :
        IF ok
        THEN /\ historico' = [historico EXCEPT
                                 !.linhas = update(@, <<CABECALHO>>, 1)]
             /\ df_novas' = [df_novas EXCEPT ![p] = Filtrar(df[p], {})]
             /\ pc' = [pc EXCEPT ![p] = "categorizar"]
             /\ UNCHANGED falha
        ELSE /\ Propaga(p, "criar")
             /\ UNCHANGED <<historico, df_novas>>
    /\ Registra(p, "criar_cabecalho")
    /\ UNCHANGED <<aba_mes, df, secao, linha, pend, prox_linha, execucoes,
                   antes, escritas, alocada, total_escritas, anterior,
                   classificador>>

\* lines 261-265: classification of the surviving rows.
Categorizar(p) ==
    /\ pc[p] = "categorizar"
    /\ df_novas' = [df_novas EXCEPT ![p] = Classificar(@)]
    /\ secao' = [secao EXCEPT ![p] = 1]
    /\ pc' = [pc EXCEPT ![p] = "encontrar"]
    /\ Registra(p, "categorizar")
    /\ UNCHANGED <<aba_mes, historico, df, linha, pend, prox_linha, execucoes,
                   antes, escritas, alocada, falha, total_escritas, anterior,
                   classificador>>

\* _atualizar_historico called as soon as one section is over.
AvancaCedo(p) ==
    /\ secao' = [secao EXCEPT ![p] = 0]
    /\ pc' = [pc EXCEPT ![p] = "hist_ler"]

\* _inserir_generico is over for the section: on to the next one, or to
\* _atualizar_historico after the last (lines 267-269, 257).
Avanca(p) ==
    IF secao[p] < NumSecoes
    THEN /\ secao' = [secao EXCEPT ![p] = @ + 1]
         /\ pc' = [pc EXCEPT ![p] = "encontrar"]
    ELSE /\ secao' = [secao EXCEPT ![p] = 0]
         /\ pc' = [pc EXCEPT ![p] = "hist_ler"]

\* lines 278-279: the allocator's read of the probe column.
Encontrar(p) ==
    /\ pc[p] = "encontrar"
    /\ \E ok \in BOOLEAN :
        LET sec == Secoes[secao[p]]
            l == encontrar_proxima_linha_vazia(aba_mes, sec.col, sec.inicio, sec.fim)
            g == Grupo(df_novas[p], secao[p])
        IN  IF ~ok
            THEN /\ Propaga(p, "leitura")
                 /\ UNCHANGED <<secao, linha, pend, alocada>>
            ELSE /\ alocada' = [alocada EXCEPT ![p] = Append(@, l)]
                 /\ linha' = [linha EXCEPT ![p] = l]
                 /\ UNCHANGED falha
                 /\ IF TemEspaco(l, sec.fim) /\ Continua(l, sec.fim, g)
                    THEN /\ pend' = [pend EXCEPT ![p] = g]
                         /\ pc' = [pc EXCEPT ![p] = "inserir"]
                         /\ UNCHANGED secao
                    ELSE /\ pend' = [pend EXCEPT ![p] = <<>>]
                         /\ Avanca(p)
    /\ Registra(p, "encontrar")
    /\ UNCHANGED <<aba_mes, historico, df, df_novas, prox_linha, execucoes,
                   antes, escritas, total_escritas, anterior, classificador>>

\* lines 280-285: one turn of the loop, the cell update of line 283.
InserirLinha(p) ==
    /\ pc[p] = "inserir"
    /\ \E ok \in BOOLEAN :
        LET sec == Secoes[secao[p]]
            row == Head(pend[p])
        IN  IF ~ok
            THEN /\ Propaga(p, "celula")
                 /\ UNCHANGED <<aba_mes, secao, linha, pend, escritas,
                                total_escritas>>
            ELSE /\ aba_mes' = [aba_mes EXCEPT ![<<sec.col, linha[p]>>] =
                                   Prefixo(row.Descricao, 50)]
                 /\ escritas' = [escritas EXCEPT ![p] =
                        Append(@, [secao |-> secao[p], linha |-> linha[p],
                                   Hash |-> row.Hash])]
                 /\ total_escritas' = [total_escritas EXCEPT ![row.Hash] = @ + 1]
                 /\ linha' = [linha EXCEPT ![p] = @ + 1]
                 /\ pend' = [pend EXCEPT ![p] = Tail(@)]
                 /\ UNCHANGED falha
                 /\ IF Continua(linha[p] + 1, sec.fim, Tail(pend[p]))
                    THEN UNCHANGED <<pc, secao>>
                    ELSE Avanca(p)
    /\ Registra(p, "inserir")
    /\ UNCHANGED <<historico, df, df_novas, prox_linha, execucoes, antes,
                   alocada, anterior, classificador>>

\* The exception is caught and logged, _atualizar_historico returns
\* (lines 295-296), and importar_transacoes with it.
Engole(p, qual) ==
    /\ pc' = [pc EXCEPT ![p] = "done"]
    /\ falha' = [falha EXCEPT ![p] = qual]

\* lines 289-291: worksheet() and get_all_values().
LerHistorico(p) ==
    /\ pc[p] = "hist_ler"
    /\ \E ok \in BOOLEAN :
        IF ok /\ historico.existe
        THEN /\ prox_linha' = [prox_linha EXCEPT ![p] =
                                  ProxLinha(get_all_values(historico.linhas))]
             /\ pc' = [pc EXCEPT ![p] = "hist_gravar"]
             /\ UNCHANGED falha
        ELSE /\ Engole(p, "historico_leitura")
             /\ UNCHANGED prox_linha
    /\ Registra(p, "hist_ler")
    /\ UNCHANGED <<aba_mes, historico, df, df_novas, secao, linha, pend,
                   execucoes, antes, escritas, alocada, total_escritas, anterior,
                   classificador>>

\* lines 292-294: the update that appends the rows of df_novas.
GravarHistorico(p) ==
    /\ pc[p] = "hist_gravar"
    /\ \E ok \in BOOLEAN :
        IF ok
        THEN /\ historico' = [historico EXCEPT !.linhas =
                    update(@, Dados(df_novas[p], Agora(execucoes)), prox_linha[p])]
             /\ pc' = [pc EXCEPT ![p] = "done"]
             /\ UNCHANGED falha
        ELSE /\ Engole(p, "historico_escrita")
             /\ UNCHANGED historico
    /\ Registra(p, "hist_gravar")
    /\ UNCHANGED <<aba_mes, locais, execucoes, antes, escritas, alocada,
                   total_escritas, anterior, classificador>>

\* A step of process p, whose runs take their batches from lotes.
Corre(p, lotes) ==
    \/ \E lote \in lotes : Iniciar(p, lote)
    \/ ConsultarHistorico(p)
    \/ CriarAba(p)
    \/ CriarCabecalho(p)
    \/ Categorizar(p)
    \/ Encontrar(p)
    \/ InserirLinha(p)
    \/ LerHistorico(p)
    \/ GravarHistorico(p)

Passo(p) == Corre(p, Lotes)

(***************************************************************************)
(* Specifications.                                                         *)
(***************************************************************************)
\* A header row that names no column "Hash".
CABECALHO_SEM_HASH == <<"Id", "Data", "Descricao", "Valor", "Data_Importacao">>

\* No call of categorizar on its own is under way.
SemChamada ==
    /\ chamada = [descricao |-> "", valor |-> 0]
    /\ resultado = <<>>

InitLocais ==
    /\ pc = [p \in Procs |-> "idle"]
    /\ df = [p \in Procs |-> <<>>]
    /\ df_novas = [p \in Procs |-> <<>>]
    /\ secao = [p \in Procs |-> 0]
    /\ linha = [p \in Procs |-> None]
    /\ pend = [p \in Procs |-> <<>>]
    /\ prox_linha = [p \in Procs |-> 0]
    /\ antes = [p \in Procs |-> [aba |-> aba_mes, hist |-> historico]]
    /\ escritas = [p \in Procs |-> <<>>]
    /\ alocada = [p \in Procs |-> <<>>]
    /\ falha = [p \in Procs |-> ""]
    /\ total_escritas = [h \in HashesDosRegistros |-> 0]
    /\ anterior = [p \in Procs |-> [df |-> <<>>, pc |-> "idle"]]
    /\ passos = [p \in Procs |-> <<>>]

\* A fresh month sheet; the sheet "Historico" missing, or holding a header.
Init ==
    /\ aba_mes = [c \in Celulas |-> ""]
    /\ historico \in {[existe |-> FALSE, linhas |-> <<>>],
                      [existe |-> TRUE, linhas |-> <<CABECALHO>>],
                      [existe |-> TRUE, linhas |-> <<CABECALHO_SEM_HASH>>]}
    /\ execucoes = 0
    /\ InitLocais
    /\ SemChamada

\* Runs of importar_transacoes one after the other, by one process.
Next == Passo("p1")

Spec == Init /\ [][Next]_vars

\* The ledger entries of the first k records of the list, as a run at
\* time 0 appended them.
LinhasImportadas(k) == Dados(ComHash(SubSeq(ListaRegistros, 1, k)), Agora(0))

\* The sheet "Historico" as earlier runs or the user may have left it:
\* missing, created but empty, a header row with the column "Hash" followed
\* by the entries of the records imported before, or a header row without
\* that column, alone or followed by entries.
HistoricosAnteriores ==
    {[existe |-> FALSE, linhas |-> <<>>], [existe |-> TRUE, linhas |-> <<>>]} \cup
    {[existe |-> TRUE, linhas |-> <<CABECALHO>> \o LinhasImportadas(k)] :
         k \in 0..Len(ListaRegistros)} \cup
    {[existe |-> TRUE, linhas |-> <<CABECALHO_SEM_HASH>> \o LinhasImportadas(k)] :
         k \in {0, Len(ListaRegistros)}}

\* One run from any store: month sheet cells filled by hand or by earlier
\* runs, a ledger left by earlier runs.
InitUmaExecucao ==
    /\ aba_mes \in [Celulas -> {"", "antigo"}]
    /\ historico \in HistoricosAnteriores
    /\ execucoes = MaxExec - 1
    /\ InitLocais
    /\ SemChamada

SpecUmaExecucao == InitUmaExecucao /\ [][Next]_vars

\* One run from a store whose sections are each either empty or full, with
\* a ledger left by earlier runs.
InitSecoesInteiras ==
    /\ \E cheias \in SUBSET (1..NumSecoes) :
           aba_mes = [c \in Celulas |->
                         IF \E s \in cheias :
                                /\ c[1] = Secoes[s].col
                                /\ c[2] \in Secoes[s].inicio..Secoes[s].fim
                         THEN "antigo" ELSE ""]
    /\ historico \in HistoricosAnteriores
    /\ execucoes = MaxExec - 1
    /\ InitLocais
    /\ SemChamada

SpecSecoesInteiras == InitSecoesInteiras /\ [][Next]_vars

\* Two runs of importar_transacoes on the same spreadsheet, by processes
\* whose store calls interleave in any order: a fresh month sheet, the
\* ledger missing or with its header, batches of the two records of the
\* list that go to Gastos Variaveis.
LotesConcorrentes ==
    UNION {[1..n -> {ListaRegistros[3], ListaRegistros[4]}] : n \in 1..MaxLote}

InitConcorrente ==
    /\ aba_mes = [c \in Celulas |-> ""]
    /\ historico \in {[existe |-> FALSE, linhas |-> <<>>],
                      [existe |-> TRUE, linhas |-> <<CABECALHO>>]}
    /\ execucoes = MaxExec - 2
    /\ InitLocais
    /\ SemChamada

NextConcorrente ==
    Corre("p1", LotesConcorrentes) \/ Corre("p2", LotesConcorrentes)

SpecConcorrente == InitConcorrente /\ [][NextConcorrente]_vars

\* Two runs one after the other on a month sheet whose sections are full,
\* with the ledger missing or holding its header; between the runs the
\* user of the sheet may clear sections. The batches hold an income and an
\* expense of the list.
LotesLiberacao ==
    UNION {[1..n -> {ListaRegistros[1], ListaRegistros[3]}] : n \in 1..MaxLote}

InitLiberacao ==
    /\ aba_mes = [c \in Celulas |-> "antigo"]
    /\ historico \in {[existe |-> FALSE, linhas |-> <<>>],
                      [existe |-> TRUE, linhas |-> <<CABECALHO>>]}
    /\ execucoes = MaxExec - 2
    /\ InitLocais
    /\ SemChamada

\* After a run has ended and while none is under way, the user clears the
\* rows of a section.
Liberar ==
    /\ \E p \in Procs : pc[p] \in {"done", "falhou"}
    /\ \A p \in Procs : pc[p] \in {"idle", "done", "falhou"}
    /\ \E s \in 1..NumSecoes :
           /\ \E r \in Secoes[s].inicio..Secoes[s].fim :
                  aba_mes[<<Secoes[s].col, r>>] # ""
           /\ aba_mes' = [c \in Celulas |->
                             IF /\ c[1] = Secoes[s].col
                                /\ c[2] \in Secoes[s].inicio..Secoes[s].fim
                             THEN "" ELSE aba_mes[c]]
    /\ UNCHANGED <<historico, pc, locais, execucoes, antes, escritas, alocada,
                   falha, total_escritas, anterior, passos, classificador>>

NextLiberacao == Corre("p1", LotesLiberacao) \/ Liberar

SpecLiberacao == InitLiberacao /\ [][NextLiberacao]_vars

\* A call of categorizar on its own, with any description and amount.
InitCategorizador ==
    /\ aba_mes = [c \in Celulas |-> ""]
    /\ historico = [existe |-> FALSE, linhas |-> <<>>]
    /\ execucoes = 0
    /\ InitLocais
    /\ chamada \in [descricao : Descricoes, valor : Valores]
    /\ resultado = <<>>

\* The call returns.
Categoriza ==
    /\ resultado = <<>>
    /\ resultado' = categorizar(chamada.descricao, chamada.valor)
    /\ UNCHANGED <<aba_mes, historico, pc, locais, execucoes, antes, escritas,
                   alocada, falha, total_escritas, anterior, passos, chamada>>

NextCategorizador == Categoriza

SpecCategorizador == InitCategorizador /\ [][NextCategorizador]_vars

(***************************************************************************)
(* Properties.                                                             *)
(***************************************************************************)
\* The rows of the ledger whose first cell is h.
LinhasDoHash(linhas, h) == {i \in 1..Len(linhas) : linhas[i][1] = h}

\* The run of p has returned normally / has something behind it.
Terminou(p) == pc[p] = "done"

\* The store calls that write.
FalhasDeEscrita == {"celula", "criar", "historico_escrita"}

\* The cell writes of the run of p into section s, in order.
RECURSIVE NaSecao(_, _)
NaSecao(es, s) ==
    IF es = <<>> THEN <<>>
    ELSE (IF Head(es).secao = s THEN <<Head(es)>> ELSE <<>>) \o NaSecao(Tail(es), s)

\* _inserir_generico has returned for section s in the run of p.
SecaoEncerrada(p, s) ==
    /\ Len(alocada[p]) >= s
    /\ \/ pc[p] \in {"hist_ler", "hist_gravar", "done"}
       \/ pc[p] \in {"encontrar", "inserir"} /\ secao[p] > s

\* C1: over any sequence of runs on arbitrary batches, the rows with one
\* (date, description, amount) triple, that is with one hash, are written
\* into section rows at most once in total.
C1_NoMaximoUmaVez == \A h \in HashesDosRegistros : total_escritas[h] <= 1

\* C2: a run on the same batch as the run before it, which had returned
\* normally, finds the ledger holding each hash of the batch exactly once,
\* filters every row out, and writes no cell and no ledger row.
C2_Idempotencia ==
    \A p \in Procs :
        (Terminou(p) /\ anterior[p].pc = "done" /\ anterior[p].df = df[p]) =>
            /\ \A i \in 1..Len(df[p]) :
                   Cardinality(LinhasDoHash(historico.linhas, df[p][i].Hash)) = 1
            /\ df_novas[p] = <<>>
            /\ escritas[p] = <<>>
            /\ historico = antes[p].hist

\* C3: no hash stands in more than one row of the ledger.
C3_HashUnicoNoHistorico ==
    \A h \in HashesDosRegistros :
        Cardinality(LinhasDoHash(historico.linhas, h)) <= 1

\* The row the claim C4 expects of the allocator: the smallest row of
\* [inicio, fim] with an empty cell, None when there is none.
MenorLinhaVazia(aba, coluna, inicio, fim) ==
    LET vazias == {r \in inicio..fim : aba[<<coluna, r>>] = ""}
    IN  IF vazias = {} THEN None ELSE Menor(vazias)

\* C4: for every occupancy of the probe column, the allocator returns the
\* smallest empty row of the range, and None only when every row is
\* occupied.
C4_MenorLinhaVazia ==
    \A p \in Procs : \A s \in 1..Len(alocada[p]) :
        alocada[p][s] =
            MenorLinhaVazia(antes[p].aba, Secoes[s].col, Secoes[s].inicio,
                            Secoes[s].fim)

\* C5: every cell a run writes was empty when the run started.
C5_SemSobrescrita ==
    \A p \in Procs : \A i \in 1..Len(escritas[p]) :
        antes[p].aba[<<Secoes[escritas[p][i].secao].col, escritas[p][i].linha>>] = ""

\* C6: every cell write of a section lands in [inicio, fim]; once
\* _inserir_generico has returned for a section, the rows written are the
\* first min(len(group), fim - linha + 1) rows of the group, in order, on
\* consecutive rows from the row the allocator returned, and none when the
\* allocator returned None; the rows left over are dropped and the run goes
\* on to the next section.
C6_CapacidadeLimitada ==
    \A p \in Procs :
        /\ \A i \in 1..Len(escritas[p]) :
               LET e == escritas[p][i]
               IN  Secoes[e.secao].inicio <= e.linha /\ e.linha <= Secoes[e.secao].fim
        /\ \A s \in 1..NumSecoes :
               SecaoEncerrada(p, s) =>
                   LET g == Grupo(df_novas[p], s)
                       l == alocada[p][s]
                       es == NaSecao(escritas[p], s)
                       cabem == Secoes[s].fim - l + 1
                       n == IF l = None THEN 0
                            ELSE IF Len(g) < cabem THEN Len(g) ELSE cabem
                   IN  /\ Len(es) = n
                       /\ \A k \in 1..n :
                              es[k].Hash = g[k].Hash /\ es[k].linha = l + k - 1

\* A section took fewer rows than its group held, and the run went on.
C6_Witness ==
    \E p \in Procs : \E s \in 1..NumSecoes :
        /\ SecaoEncerrada(p, s)
        /\ alocada[p][s] # None
        /\ Len(NaSecao(escritas[p], s)) = Secoes[s].fim - alocada[p][s] + 1
        /\ Len(Grupo(df_novas[p], s)) > Len(NaSecao(escritas[p], s))
        /\ Terminou(p)

\* The rows the ledger holds beyond those it held when the run started
\* (beyond the header, when the run created the sheet), empty rows aside.
Acrescentadas(p) ==
    LET n0 == IF antes[p].hist.existe THEN Len(antes[p].hist.linhas) ELSE 1
    IN  SelectSeq(SubSeq(historico.linhas, n0 + 1, Len(historico.linhas)),
                  LAMBDA l : l # LinhaVazia)

\* C7: after a run in which a row survived the deduplication, the ledger
\* holds one appended entry per surviving row, with the hashes of these
\* rows.
C7_HistoricoDeTodasAsNovas ==
    \A p \in Procs :
        (Terminou(p) /\ df_novas[p] # <<>>) =>
            /\ Len(Acrescentadas(p)) = Len(df_novas[p])
            /\ \A i \in 1..Len(df_novas[p]) :
                   Acrescentadas(p)[i][1] = df_novas[p][i].Hash

\* Every row of the batch of p has its hash in the column Hash of the
\* ledger as it was when the run started.
TodasNoHistorico(p) ==
    /\ df[p] # <<>>
    /\ antes[p].hist.existe
    /\ \A i \in 1..Len(df[p]) :
           df[p][i].Hash \in HashesDoHistorico(antes[p].hist.linhas)

\* C8: when every row of the batch has its hash in the ledger, the run ends
\* at the deduplication: month sheet and ledger stay as they were.
C8_NadaNovoNadaEscrito ==
    \A p \in Procs :
        (pc[p] # "idle" /\ TodasNoHistorico(p)) =>
            /\ pc[p] \in {"consultar", "done", "falhou"}
            /\ aba_mes = antes[p].aba
            /\ historico = antes[p].hist
            /\ escritas[p] = <<>>

\* The run of a batch already in the ledger has returned.
C8_Witness ==
    \E p \in Procs :
        /\ Terminou(p)
        /\ TodasNoHistorico(p)
        /\ falha[p] = ""

\* The ledger of the run of p existed at its start and held entries under a
\* header row that names no column Hash.
SemColunaHash(p) ==
    /\ antes[p].hist.existe
    /\ Len(antes[p].hist.linhas) >= 2
    /\ \A k \in 1..Len(antes[p].hist.linhas[1]) :
           antes[p].hist.linhas[1][k] # "Hash"

\* C9: when the ledger exists and its hashes cannot be read (here: it holds
\* entries and no column Hash), the run does not go on with an empty set of
\* hashes: it aborts before any cell write.
C9_HistoricoIlegivelPropaga ==
    \A p \in Procs :
        (SemColunaHash(p) /\ pc[p] \notin {"idle", "consultar"}) =>
            pc[p] = "falhou" /\ escritas[p] = <<>>

\* C10: a run in which a store write failed never returns normally.
C10_FalhaDeEscritaPropaga ==
    \A p \in Procs : falha[p] \in FalhasDeEscrita => pc[p] # "done"

\* C11: every row the ledger held when a run started, the header included,
\* is still there and unchanged at every later point of the run: the rows
\* of the run come below the last row the ledger held, and no row is
\* overwritten or deleted.
C11_HistoricoSoCresce ==
    \A p \in Procs :
        (pc[p] # "idle" /\ antes[p].hist.existe) =>
            /\ historico.existe
            /\ Len(historico.linhas) >= Len(antes[p].hist.linhas)
            /\ \A i \in 1..Len(antes[p].hist.linhas) :
                   historico.linhas[i] = antes[p].hist.linhas[i]

\* A run has appended its rows to a ledger that held entries.
C11_Witness ==
    \E p \in Procs :
        /\ Terminou(p)
        /\ antes[p].hist.existe
        /\ Len(antes[p].hist.linhas) >= 2
        /\ Len(historico.linhas) > Len(antes[p].hist.linhas)

\* The call of categorizar has returned.
Retornou == resultado # <<>>

\* desc holds one of the two income markers of line 130.
TemMarcaDeEntrada(desc) == Contem("recebida", desc) \/ Contem("salario", desc)

\* The keywords of the category table and of the fixed expenses.
PalavrasChave ==
    UNION {{MAPEAMENTO[k].palavras[i] : i \in 1..Len(MAPEAMENTO[k].palavras)} :
              k \in 1..Len(MAPEAMENTO)}
    \cup {GASTOS_FIXOS_KEYWORDS[i] : i \in 1..Len(GASTOS_FIXOS_KEYWORDS)}

\* C12: for every description and every amount > 0, categorizar returns
\* ('Entrada', 'Receita', False), whatever keywords the description holds.
C12_ValorPositivoEhEntrada ==
    (Retornou /\ chamada.valor > 0) => resultado = <<"Entrada", "Receita", FALSE>>

\* A positive amount with the keyword of a fixed expense and of a category.
C12_Witness ==
    /\ Retornou
    /\ chamada.valor > 0
    /\ Contem("aluguel", Lower(chamada.descricao))
    /\ ~TemMarcaDeEntrada(Lower(chamada.descricao))

\* "aluguel" is the only keyword in desc, and desc has no income marker.
SoAluguel(desc) ==
    /\ Contem("aluguel", desc)
    /\ ~TemMarcaDeEntrada(desc)
    /\ \A w \in PalavrasChave \ {"aluguel"} : ~Contem(w, desc)

\* C13: for every description that contains "aluguel", categorizar returns
\* eh_fixo = True; a description whose only keyword is "aluguel" gets the
\* fallback category: ('Necessidade', 'Despesa', True).
C13_AluguelFixoNecessidade ==
    (Retornou /\ Contem("aluguel", Lower(chamada.descricao))) =>
        /\ resultado[3] = TRUE
        /\ SoAluguel(Lower(chamada.descricao)) =>
               resultado = <<"Necessidade", "Despesa", TRUE>>

\* C13, amended: for every description that contains "aluguel", with an
\* amount <= 0 and no income marker, categorizar returns an expense with
\* eh_fixo = True and a category of the table, never the fallback
\* 'Necessidade'; a description whose only keyword is "aluguel" gets
\* ('Casa', 'Despesa', True). With an amount > 0 or an income marker the
\* result is ('Entrada', 'Receita', False).
C13_AluguelFixoCasa ==
    LET desc == Lower(chamada.descricao)
    IN  (Retornou /\ Contem("aluguel", desc)) =>
            IF chamada.valor > 0 \/ TemMarcaDeEntrada(desc)
            THEN resultado = <<"Entrada", "Receita", FALSE>>
            ELSE /\ resultado[2] = "Despesa"
                 /\ resultado[3] = TRUE
                 /\ resultado[1] # "Necessidade"
                 /\ SoAluguel(desc) => resultado[1] = "Casa"

\* An expense whose only keyword is "aluguel" has been classified.
C13_Witness ==
    /\ Retornou
    /\ chamada.valor <= 0
    /\ SoAluguel(Lower(chamada.descricao))

\* The categories of the table with a keyword in desc, by their place in
\* the table.
ComPalavra(desc) ==
    {k \in 1..Len(MAPEAMENTO) :
        \E i \in 1..Len(MAPEAMENTO[k].palavras) :
            Contem(MAPEAMENTO[k].palavras[i], desc)}

\* C14: for an amount <= 0 and a description without income marker,
\* categorizar returns an expense whose category is the first of the table,
\* in its declared order, with a keyword that is a substring of the
\* lowercased description, and 'Necessidade' when there is none; eh_fixo is
\* what the fixed keywords give, whichever category wins.
C14_PrimeiraCategoriaDaTabela ==
    LET desc == Lower(chamada.descricao)
    IN  (Retornou /\ chamada.valor <= 0 /\ ~TemMarcaDeEntrada(desc)) =>
            /\ resultado[2] = "Despesa"
            /\ resultado[1] = IF ComPalavra(desc) = {} THEN "Necessidade"
                              ELSE MAPEAMENTO[Menor(ComPalavra(desc))].categoria
            /\ resultado[3] =
                   (\E i \in 1..Len(GASTOS_FIXOS_KEYWORDS) :
                        Contem(Limpar(GASTOS_FIXOS_KEYWORDS[i]), Limpar(desc)))

\* An expense with keywords of two categories has been classified, and one
\* with a fixed keyword and no category.
C14_Witness ==
    LET desc == Lower(chamada.descricao)
    IN  /\ Retornou
        /\ chamada.valor <= 0
        /\ ~TemMarcaDeEntrada(desc)
        /\ Cardinality(ComPalavra(desc)) >= 2
        /\ resultado[3] = TRUE

\* The rows that passed the deduplication carry their classification.
Classificada(p) == df_novas[p] # <<>> /\ "Tipo" \in DOMAIN df_novas[p][1]

\* The section the claim C15 gives a classified row.
SecaoDaClasse(row) ==
    IF row.Tipo = "Receita" THEN "Entradas"
    ELSE IF row.EhFixo THEN "Fixos" ELSE "Variaveis"

\* The sections, of those whose groups are given, whose group holds the row.
SecoesDe(grupos, row) ==
    {s \in DOMAIN grupos : \E k \in 1..Len(grupos[s]) : grupos[s][k] = row}

\* C15: every row that passed the deduplication is in the group of exactly
\* one section, the one of its classification: Receita in Entradas, Despesa
\* with EhFixo in Gastos Fixos, Despesa without in Gastos Variaveis; the
\* three groups hold as many rows as passed; the rows a section is being
\* served and the rows written into it are rows of its class.
C15_Particao ==
    \A p \in Procs :
        Classificada(p) =>
            LET grupos == [s \in 1..NumSecoes |-> Grupo(df_novas[p], s)]
            IN
            /\ \A i \in 1..Len(df_novas[p]) :
                   LET em == SecoesDe(grupos, df_novas[p][i])
                   IN  /\ Cardinality(em) = 1
                       /\ \A s \in em :
                              Secoes[s].nome = SecaoDaClasse(df_novas[p][i])
            /\ Len(grupos[1]) + Len(grupos[2]) + Len(grupos[3]) = Len(df_novas[p])
            /\ pc[p] = "inserir" =>
                   \A k \in 1..Len(pend[p]) :
                       Secoes[secao[p]].nome = SecaoDaClasse(pend[p][k])
            /\ \A k \in 1..Len(escritas[p]) :
                   \E i \in 1..Len(df_novas[p]) :
                       /\ df_novas[p][i].Hash = escritas[p][k].Hash
                       /\ Secoes[escritas[p][k].secao].nome =
                              SecaoDaClasse(df_novas[p][i])

\* A run has written rows of its batch into two sections.
C15_Witness ==
    \E p \in Procs :
        /\ Terminou(p)
        /\ falha[p] = ""
        /\ \E j, k \in 1..Len(escritas[p]) :
               escritas[p][j].secao # escritas[p][k].secao

\* The place of a step in the pipeline of the claim C16: the hashing, the
\* query of the ledger (with the creation of a missing ledger), the
\* classification, then per section in turn its filter with the allocation
\* and its cell writes, then the two calls of the ledger append.
Ordem(e) ==
    CASE e.passo = "hash" -> 1
      [] e.passo = "consultar" -> 2
      [] e.passo = "criar_aba" -> 3
      [] e.passo = "criar_cabecalho" -> 4
      [] e.passo = "categorizar" -> 5
      [] e.passo = "encontrar" -> 4 + 2 * e.secao
      [] e.passo = "inserir" -> 5 + 2 * e.secao
      [] e.passo = "hist_ler" -> 12
      [] e.passo = "hist_gravar" -> 13

\* The steps of the run of p so far that are the step named.
PassosDe(p, passo) == {i \in 1..Len(passos[p]) : passos[p][i].passo = passo}

\* C16: the steps of a run come in the order hash, ledger query,
\* classification, partition and writes section by section, ledger append;
\* no step comes twice or after a later one (the writes of one section are
\* the turns of one loop); the hashes of the ledger are read once, before
\* the classification and any cell write; the ledger append starts after
\* the insertion was attempted for all three sections, and the ledger is
\* not written before.
C16_OrdemDosPassos ==
    \A p \in Procs :
        LET t == passos[p]
        IN  /\ \A i \in 1..(Len(t) - 1) :
                   \/ Ordem(t[i]) < Ordem(t[i + 1])
                   \/ t[i] = t[i + 1] /\ t[i].passo = "inserir"
            /\ t # <<>> => t[1].passo = "hash"
            /\ Cardinality(PassosDe(p, "consultar")) <= 1
            /\ \A j \in 1..Len(t) :
                   t[j].passo \in {"categorizar", "encontrar", "inserir",
                                   "hist_ler", "hist_gravar"} =>
                       \E i \in 1..(j - 1) : t[i].passo = "consultar"
            /\ \A j \in PassosDe(p, "hist_ler") :
                   \A s \in 1..NumSecoes :
                       \E i \in 1..(j - 1) :
                           t[i] = [passo |-> "encontrar", secao |-> s]
            /\ (pc[p] # "idle" /\ PassosDe(p, "hist_gravar") = {}
                   /\ antes[p].hist.existe) =>
                   historico = antes[p].hist
            /\ PassosDe(p, "consultar") = {} => escritas[p] = <<>>

\* A run went through every step, with cell writes into two sections.
C16_Witness ==
    \E p \in Procs :
        /\ Terminou(p)
        /\ falha[p] = ""
        /\ PassosDe(p, "hist_gravar") # {}
        /\ \E i, j \in PassosDe(p, "inserir") :
               passos[p][i].secao # passos[p][j].secao

\* The occupied rows of section s are its first rows, with no empty row
\* before an occupied one.
PrefixoSemLacunas(aba, s) ==
    \A r \in Secoes[s].inicio..Secoes[s].fim :
        aba[<<Secoes[s].col, r>>] # "" =>
            \A q \in Secoes[s].inicio..r : aba[<<Secoes[s].col, q>>] # ""

\* C17: when the occupied rows of a section were a gap-free prefix of it at
\* the start of the run, they are one during and after _inserir_generico;
\* the rows written are consecutive, hold the rows of the group in their
\* order, and each holds the description of its one row of the batch.
C17_ContiguidadePreservada ==
    \A p \in Procs : \A s \in 1..NumSecoes :
        (pc[p] # "idle" /\ PrefixoSemLacunas(antes[p].aba, s)) =>
            LET es == NaSecao(escritas[p], s)
                g == Grupo(df_novas[p], s)
            IN  /\ PrefixoSemLacunas(aba_mes, s)
                /\ \A k \in 1..Len(es) :
                       /\ es[k].linha = es[1].linha + k - 1
                       /\ es[k].Hash = g[k].Hash
                       /\ aba_mes[<<Secoes[s].col, es[k].linha>>] =
                              Prefixo(g[k].Descricao, 50)

\* Two rows were written into a section that was a gap-free prefix.
C17_Witness ==
    \E p \in Procs : \E s \in 1..NumSecoes :
        /\ PrefixoSemLacunas(antes[p].aba, s)
        /\ SecaoEncerrada(p, s)
        /\ Len(NaSecao(escritas[p], s)) >= 2
        /\ Terminou(p)

\* The hashes of the rows of d.
Hashes(d) == {d[i].Hash : i \in 1..Len(d)}

\* The run of p has appended its rows to the ledger.
Gravou(p) == Terminou(p) /\ falha[p] = "" /\ PassosDe(p, "hist_gravar") # {}

\* The rows of the ledger from prox_linha of p on are those p appended.
LinhasIntactas(p) ==
    /\ Len(historico.linhas) >= prox_linha[p] + Len(df_novas[p]) - 1
    /\ \A i \in 1..Len(df_novas[p]) :
           historico.linhas[prox_linha[p] + i - 1][1] = df_novas[p][i].Hash

\* C18: nothing coordinates two runs whose store calls interleave. When the
\* allocator gave both the same row of a section and both had rows for the
\* section, both wrote that row, the later write over the earlier one; when
\* both appended to the ledger, the rows of one of them are in the ledger
\* as it wrote them (the other's may lie under them or beside them), so a
\* hash that passed the deduplication of both is in the ledger once or
\* several times.
C18_CorridaSemCoordenacao ==
    \A p, q \in Procs :
        p # q =>
            /\ \A s \in 1..NumSecoes :
                   ( /\ SecaoEncerrada(p, s) /\ SecaoEncerrada(q, s)
                     /\ alocada[p][s] # None /\ alocada[p][s] = alocada[q][s]
                     /\ Grupo(df_novas[p], s) # <<>>
                     /\ Grupo(df_novas[q], s) # <<>> ) =>
                       /\ NaSecao(escritas[p], s) # <<>>
                       /\ NaSecao(escritas[q], s) # <<>>
                       /\ NaSecao(escritas[p], s)[1].linha = alocada[p][s]
                       /\ NaSecao(escritas[q], s)[1].linha = alocada[p][s]
            /\ (Gravou(p) /\ Gravou(q)) =>
                   /\ LinhasIntactas(p) \/ LinhasIntactas(q)
                   /\ \A h \in Hashes(df_novas[p]) \cap Hashes(df_novas[q]) :
                          Cardinality(LinhasDoHash(historico.linhas, h)) >= 1

\* Both runs were given the same row of a section, the row of one record
\* was overwritten with the other's, and a hash that passed the
\* deduplication of both stands in two rows of the ledger.
C18_Witness ==
    \E p, q \in Procs : \E s \in 1..NumSecoes :
        /\ p # q
        /\ Gravou(p) /\ Gravou(q)
        /\ alocada[p][s] # None /\ alocada[p][s] = alocada[q][s]
        /\ NaSecao(escritas[p], s) # <<>> /\ NaSecao(escritas[q], s) # <<>>
        /\ NaSecao(escritas[p], s)[1].linha = alocada[p][s]
        /\ NaSecao(escritas[q], s)[1].linha = alocada[p][s]
        /\ NaSecao(escritas[p], s)[1].Hash # NaSecao(escritas[q], s)[1].Hash
        /\ aba_mes[<<Secoes[s].col, alocada[p][s]>>] =
               Prefixo(Grupo(df_novas[q], s)[1].Descricao, 50)
        /\ \E h \in Hashes(df_novas[p]) \cap Hashes(df_novas[q]) :
               Cardinality(LinhasDoHash(historico.linhas, h)) = 2

\* The ledger has its header row.
ComCabecalho == Len(historico.linhas) >= 1 /\ historico.linhas[1] = CABECALHO

\* C19: a run that appended to a ledger with its header has put there the
\* hash of every row that passed its deduplication, of the rows no section
\* took as of the rows written; and a row whose hash the ledger held when a
\* run started is filtered out by that run and written into no cell,
\* whatever rows the sections have free by then.
C19_DescartadoFicaImportado ==
    \A p \in Procs :
        /\ (Gravou(p) /\ ComCabecalho) =>
               \A h \in Hashes(df_novas[p]) :
                   h \in HashesDoHistorico(historico.linhas)
        /\ pc[p] # "idle" =>
               \A h \in Hashes(df[p]) \cap HashesDoHistorico(antes[p].hist.linhas) :
                   /\ h \notin Hashes(df_novas[p])
                   /\ \A k \in 1..Len(escritas[p]) : escritas[p][k].Hash # h

\* A run has returned whose batch held a row that the run before had passed
\* to a full section: its hash is in the ledger, no run ever wrote it into
\* a cell, and the rows of all sections were free when the run started and
\* still are.
C19_Witness ==
    \E p \in Procs :
        /\ Terminou(p)
        /\ falha[p] = ""
        /\ PassosDe(p, "consultar") # {}
        /\ anterior[p].pc = "done"
        /\ \A c \in Celulas : antes[p].aba[c] = "" /\ aba_mes[c] = ""
        /\ \E h \in Hashes(df[p]) \cap Hashes(anterior[p].df) :
               /\ h \in HashesDoHistorico(antes[p].hist.linhas)
               /\ total_escritas[h] = 0

\* C20: in a run that found no ledger, the ledger exists with the header
\* row of five columns from the classification on, so before any cell
\* write and before the append; no row of the batch is filtered out; before
\* the append the ledger holds no more than its header, and after it the
\* header row followed by one entry per row of the batch, in order.
C20_CriacaoTardiaDoHistorico ==
    \A p \in Procs :
        (pc[p] # "idle" /\ ~antes[p].hist.existe) =>
            /\ ( \/ pc[p] \in {"categorizar", "encontrar", "inserir",
                                "hist_ler", "hist_gravar", "done"}
                 \/ escritas[p] # <<>> ) =>
                   /\ historico.existe
                   /\ ComCabecalho
                   /\ Len(df_novas[p]) = Len(df[p])
                   /\ \A i \in 1..Len(df[p]) :
                          df_novas[p][i].Hash = df[p][i].Hash
            /\ IF Gravou(p)
               THEN /\ Len(historico.linhas) = 1 + Len(df_novas[p])
                    /\ \A i \in 1..Len(df_novas[p]) :
                           historico.linhas[1 + i][1] = df_novas[p][i].Hash
               ELSE Len(historico.linhas) <= 1

\* A run that found no ledger has created it and appended its rows.
C20_Witness ==
    \E p \in Procs :
        /\ ~antes[p].hist.existe
        /\ Gravou(p)
        /\ escritas[p] # <<>>
        /\ Len(historico.linhas) >= 2

====
